---- MODULE Spec2Model ----
(***************************************************************************)
(* A model of the GAIA agent glue code: the HTTP client of the scoring     *)
(* service (gaia_agent/api.py), the agent wrapper (gaia_agent/agent.py)    *)
(* and the entry point (main.py).                                          *)
(*                                                                         *)
(* Python values are tagged records [tag, val]; a formatted string is the  *)
(* sequence of its pieces; a byte string is a sequence of byte values; a   *)
(* text stream is the sequence of the lines written to it.                 *)
(***************************************************************************)
EXTENDS Integers, Sequences, FiniteSets, TLC

(***************************************************************************)
(* Bounds of the model.                                                    *)
(***************************************************************************)
\* longest question list handed to the API and agent drivers
MaxQuestions == 2
\* most lines the external agent loop prints during one invocation
MaxLines == 2
\* most top-level calls a driver makes
MaxCalls == 2
\* tasks of the service's catalogue that are not in the file_names table
ExtraTasks == 1
\* most results a web search is asked for
MaxResults == 2

(***************************************************************************)
(* Python values.                                                          *)
(***************************************************************************)
None == [tag |-> "None", val |-> <<>>]
PyList(s) == [tag |-> "list", val |-> s]
PyTuple(s) == [tag |-> "tuple", val |-> s]
PyStr(pieces) == [tag |-> "str", val |-> pieces]
PyBytes(bs) == [tag |-> "bytes", val |-> bs]
PyDict(r) == [tag |-> "dict", val |-> r]
PyInt(n) == [tag |-> "int", val |-> n]
\* a coroutine object: the call of an async function whose body has not run
PyCoroutine(fn, args) == [tag |-> "coroutine", val |-> [fn |-> fn, args |-> args]]

\* Python's == on the values of the model
PyEq(a, b) == a.tag = b.tag /\ a.val = b.val

\* Python's truth value (the `not x` of the code)
Truthy(v) ==
    CASE v.tag = "None" -> FALSE
      [] v.tag \in {"list", "tuple", "str", "bytes"} -> Len(v.val) > 0
      [] OTHER -> TRUE

(***************************************************************************)
(* Exceptions: a class and the text str(e) gives.                          *)
(***************************************************************************)
ExcClasses ==
    {"Exception", "TypeError", "ValueError", "KeyError", "RequestException",
     "ConnectionError", "Timeout", "HTTPError", "InvalidJSONError",
     "JSONDecodeError", "UnboundLocalError", "FileNotFoundError",
     "UnicodeDecodeError", "ImportError", "DuckDuckGoSearchException",
     "CouldntDecodeError", "RequestError", "UnknownValueError"}

\* the base class of each class (requests.exceptions)
Parent(c) ==
    CASE c \in {"TypeError", "ValueError", "KeyError", "RequestException"} -> "Exception"
      [] c \in {"ConnectionError", "Timeout", "HTTPError", "InvalidJSONError"} -> "RequestException"
      [] c = "JSONDecodeError" -> "InvalidJSONError"
      [] OTHER -> "Exception"

RECURSIVE IsInstance(_, _)
\* isinstance(e, base): what an `except base` clause tests
IsInstance(c, base) ==
    IF c = base THEN TRUE
    ELSE IF c = "Exception" THEN FALSE
    ELSE IsInstance(Parent(c), base)

Exc(c, m) == [cls |-> c, msg |-> m]
NoExc == [cls |-> "none", msg |-> ""]

(***************************************************************************)
(* The requests library: the reply of one HTTP call is either an exception *)
(* raised by requests.get / requests.post or a response object.            *)
(***************************************************************************)
\* a response body that is not JSON; text is what the decode error says
NotJson(text) == [tag |-> "notjson", val |-> text]

Raised(e) == [kind |-> "raise", status |-> 0, payload |-> None, exc |-> e]
Response(status, payload) ==
    [kind |-> "response", status |-> status, payload |-> payload, exc |-> NoExc]

\* response.raise_for_status(): HTTPError for a 4xx or 5xx status
RaiseForStatus(r) ==
    IF r.status >= 400 /\ r.status < 500 THEN Exc("HTTPError", "Client Error")
    ELSE IF r.status >= 500 /\ r.status < 600 THEN Exc("HTTPError", "Server Error")
    ELSE NoExc

\* response.json(): requests' JSONDecodeError for a body that is not JSON
JsonError(r) ==
    IF r.payload.tag = "notjson" THEN Exc("JSONDecodeError", r.payload.val) ELSE NoExc

\* whether json.dumps accepts the value (requests.post(json=...)): the lists
\* of the model hold dicts of strings; a coroutine object or a byte string
\* makes json.dumps raise TypeError
JsonSerializable(v) == v.tag \in {"None", "str", "int", "list", "tuple", "dict"}

(***************************************************************************)
(* gaia_agent/api.py                                                       *)
(***************************************************************************)
API_URL == "https://agents-course-unit4-scoring.hf.space"
QUESTIONS_URL == <<API_URL, "/questions">>
SUBMIT_URL == <<API_URL, "/submit">>
FILES_URL == <<API_URL, "/files">>

DefaultTimeout == 15

\* one call of requests.get or requests.post, as the function makes it
HttpCall(method, url, timeout, json) ==
    [method |-> method, url |-> url, timeout |-> timeout, json |-> json]

\* what a function of the module did: its return value or the exception it
\* let through, the lines it printed and the requests calls it made
Outcome(ret, raised, printed, http) ==
    [ret |-> ret, raised |-> raised, printed |-> printed, http |-> http]

\* the exception a reply makes the try body raise, NoExc when none
\* (requests call, then raise_for_status, then json() when decoded)
TryBodyExc(reply, decoded) ==
    IF reply.kind = "raise" THEN reply.exc
    ELSE IF RaiseForStatus(reply) # NoExc THEN RaiseForStatus(reply)
    ELSE IF decoded THEN JsonError(reply)
    ELSE NoExc

\* fetch_questions with every except clause returning None
FetchQuestionsExcept_AllNone(e) ==
    [ret |-> None, printed |-> << <<"Error fetching questions: ", e.msg>> >>]

\* the except clauses of fetch_questions, in the order of the code
FetchQuestionsExcept(e) ==
    IF IsInstance(e.cls, "RequestException")
    THEN [ret |-> PyTuple(<<PyStr(<<"Error fetching questions: ", e.msg>>), None>>),
          printed |-> << <<"Error fetching questions: ", e.msg>> >>]
    ELSE IF IsInstance(e.cls, "JSONDecodeError")
    THEN [ret |-> None,
          printed |-> << <<"Error decoding JSON response from questions endpoint: ", e.msg>>,
                         <<"Response text: ", e.msg>> >>]
    ELSE [ret |-> None,
          printed |-> << <<"An unexpected error occurred fetching questions: ", e.msg>> >>]

\* fetch_questions without the test for an empty list
FetchQuestions_NoEmptyCheck(timeout, reply) ==
    LET http == <<HttpCall("GET", QUESTIONS_URL, timeout, None)>>
        e == TryBodyExc(reply, TRUE)
    IN  IF e # NoExc
        THEN Outcome(FetchQuestionsExcept(e).ret, NoExc, FetchQuestionsExcept(e).printed, http)
        ELSE Outcome(reply.payload, NoExc, <<>>, http)

\* fetch_questions(timeout)
FetchQuestions(timeout, reply) ==
    LET http == <<HttpCall("GET", QUESTIONS_URL, timeout, None)>>
        head == << <<"Fetching questions...">> >>
        e == TryBodyExc(reply, TRUE)
    IN  IF e # NoExc
        THEN Outcome(FetchQuestionsExcept(e).ret, NoExc,
                     head \o FetchQuestionsExcept(e).printed, http)
        ELSE IF ~Truthy(reply.payload)
        THEN Outcome(None, NoExc,
                     head \o << <<"Fetched questions list is empty.">> >>, http)
        ELSE Outcome(reply.payload, NoExc,
                     head \o << <<"Fetched ", Len(reply.payload.val), " questions.">> >>,
                     http)

\* the except clauses of submit_answers, in the order of the code
SubmitAnswersExcept(e) ==
    IF IsInstance(e.cls, "RequestException")
    THEN [ret |-> None, printed |-> << <<"Error submitting answers: ", e.msg>> >>]
    ELSE IF IsInstance(e.cls, "JSONDecodeError")
    THEN [ret |-> None,
          printed |-> << <<"Error decoding JSON response from submit endpoint: ", e.msg>>,
                         <<"Response text: ", e.msg>> >>]
    ELSE [ret |-> None,
          printed |-> << <<"An unexpected error occurred submitting answers: ", e.msg>> >>]

\* submit_answers without the final except-Exception clause
SubmitAnswers_NoCatchAll(username, agent_code, answers, reply) ==
    LET data == PyDict([username |-> username, agent_code |-> agent_code,
                        answers |-> answers])
        http == <<HttpCall("POST", SUBMIT_URL, None, data)>>
        e == IF ~JsonSerializable(answers)
             THEN Exc("TypeError", "Object is not JSON serializable")
             ELSE TryBodyExc(reply, TRUE)
    IN  IF e # NoExc
        THEN IF IsInstance(e.cls, "RequestException")
             THEN Outcome(None, NoExc, <<>>, http)
             ELSE Outcome(None, e, <<>>, http)
        ELSE Outcome(reply.payload, NoExc, <<>>, http)

\* submit_answers(username, agent_code, answers)
SubmitAnswers(username, agent_code, answers, reply) ==
    LET data == PyDict([username |-> username, agent_code |-> agent_code,
                        answers |-> answers])
        http == <<HttpCall("POST", SUBMIT_URL, None, data)>>
        \* requests.post serializes the body before anything is sent
        e == IF ~JsonSerializable(answers)
             THEN Exc("TypeError", "Object is not JSON serializable")
             ELSE TryBodyExc(reply, TRUE)
    IN  IF e # NoExc
        THEN Outcome(SubmitAnswersExcept(e).ret, NoExc, SubmitAnswersExcept(e).printed, http)
        ELSE Outcome(reply.payload, NoExc, <<>>, http)

\* get_file without the call of raise_for_status
GetFile_NoStatusCheck(task_id, reply) ==
    LET http == <<HttpCall("GET", FILES_URL \o <<"/", task_id>>, None, None)>>
    IN  IF reply.kind = "raise"
        THEN IF IsInstance(reply.exc.cls, "RequestException")
             THEN Outcome(None, NoExc, <<>>, http)
             ELSE Outcome(None, reply.exc, <<>>, http)
        ELSE Outcome(reply.payload, NoExc, <<>>, http)

\* get_file(task_id)
GetFile(task_id, reply) ==
    LET http == <<HttpCall("GET", FILES_URL \o <<"/", task_id>>, None, None)>>
        e == TryBodyExc(reply, FALSE)
    IN  IF e # NoExc
        THEN IF IsInstance(e.cls, "RequestException")
             THEN Outcome(None, NoExc, <<>>, http)
             ELSE Outcome(None, e, <<>>, http)
        ELSE Outcome(reply.payload, NoExc, <<>>, http)

(***************************************************************************)
(* gaia_agent/prompts.py, gaia_agent/tools.py (the tool list)              *)
(***************************************************************************)
\* the instruction template, cut at its one replacement field
general_instructions ==
    << "You are a general AI assistant and you must answer ONE specific question. The question is:",
       "{question}",
       "## Final Answer Format YOUR FINAL ANSWER must be one of the following: ..." >>

\* str.format(question=question): the field replaced by the argument
Format(template, question) ==
    [i \in 1..Len(template) |->
        IF template[i] = "{question}" THEN question ELSE template[i]]

tool_list ==
    << "web_search_and_scrape", "string_reverse", "read_excel_file",
       "read_python_script", "parse_audio_file" >>

(***************************************************************************)
(* gaia_agent/agent.py                                                     *)
(***************************************************************************)
\* os.environ, as the fixtures of tests/test_agent.py set it
Environ == [GEMINI_API_KEY |-> "dummy_gemini_key", OPENAI_API_KEY |-> "dummy_openai_key"]

\* dict.get(key, default)
DictGet(d, key, default) == IF key \in DOMAIN d THEN d[key] ELSE default

\* an LLM client, as its constructor was called
Llm(cls, model, api_key, temperature) ==
    [cls |-> cls, model |-> model, api_key |-> api_key, temperature |-> temperature]

\* GAIAAgent.__init__ falling back to OpenAI for an unknown provider
GAIAAgentInit_DefaultOpenAI(config) ==
    LET provider == DictGet(config, "provider", "")
        model == DictGet(config, "model_name", "")
        temperature == DictGet(config, "temperature", "None")
        llm == IF provider = "gemini"
               THEN Llm("GoogleGenAI", model, Environ.GEMINI_API_KEY, temperature)
               ELSE Llm("OpenAI", model, Environ.OPENAI_API_KEY, temperature)
    IN  [raised |-> NoExc, llms |-> <<llm>>,
         reacts |-> << [tools |-> tool_list, llm |-> llm, verbose |-> TRUE,
                        memory |-> "None"] >>]

\* GAIAAgent.__init__(config): the exception it raises, the LLM clients and
\* the ReActAgent objects it constructs
GAIAAgentInit(config) ==
    LET provider == DictGet(config, "provider", "")
        model == DictGet(config, "model_name", "")
        temperature == DictGet(config, "temperature", "None")
        llm == IF provider = "gemini"
               THEN Llm("GoogleGenAI", model, Environ.GEMINI_API_KEY, temperature)
               ELSE Llm("OpenAI", model, Environ.OPENAI_API_KEY, temperature)
    IN  IF provider \in {"gemini", "openai"}
        THEN [raised |-> NoExc, llms |-> <<llm>>,
              reacts |-> << [tools |-> tool_list, llm |-> llm, verbose |-> TRUE,
                             memory |-> "None"] >>]
        ELSE [raised |-> Exc("ValueError", <<"Unsupported provider: ", provider>>),
              llms |-> <<>>, reacts |-> <<>>]

\* the object GAIAAgent(config) is: its one attribute
GAIAAgentObject(react) == [tag |-> "GAIAAgent", val |-> [agent |-> react]]

\* the frame of one call of GAIAAgent.run suspended in its await of achat(prompt);
\* emitted is what the external loop has printed during the invocation
NoRun ==
    [active |-> FALSE, caller |-> "none", question |-> "", flag |-> FALSE,
     prompt |-> <<>>, old_stdout |-> 0, new_stdout |-> 0, emitted |-> <<>>]

\* the stream object a new io.StringIO() is: the first free identity
NewStream(strms) == CHOOSE n \in 1..(Cardinality(DOMAIN strms) + 1) : n \notin DOMAIN strms

\* the stream objects still referenced once no call of run is in flight
Collect(strms, out) == [n \in (DOMAIN strms) \cap {1, out} |-> strms[n]]

\* GAIAAgent.run redirecting sys.stdout whatever return_reasoning_process is
RunEnter_AlwaysRedirect(question, flag, caller, out, strms) ==
    [run |-> [active |-> TRUE, caller |-> caller, question |-> question,
              flag |-> flag, prompt |-> Format(general_instructions, question),
              old_stdout |-> out, new_stdout |-> NewStream(strms), emitted |-> <<>>],
     sys_stdout |-> NewStream(strms),
     streams |-> strms @@ (NewStream(strms) :> <<>>)]

\* GAIAAgent.run passing the bare question to achat
RunEnter_RawPrompt(question, flag, caller, out, strms) ==
    LET new == NewStream(strms)
    IN  IF flag
        THEN [run |-> [active |-> TRUE, caller |-> caller, question |-> question,
                       flag |-> flag, prompt |-> <<question>>,
                       old_stdout |-> out, new_stdout |-> new, emitted |-> <<>>],
              sys_stdout |-> new,
              streams |-> strms @@ (new :> <<>>)]
        ELSE [run |-> [active |-> TRUE, caller |-> caller, question |-> question,
                       flag |-> flag, prompt |-> <<question>>,
                       old_stdout |-> 0, new_stdout |-> 0, emitted |-> <<>>],
              sys_stdout |-> out,
              streams |-> strms]

\* GAIAAgent.run up to its await: the prompt, and the redirection of
\* sys.stdout when return_reasoning_process is set
RunEnter(question, flag, caller, out, strms) ==
    LET prompt == Format(general_instructions, question)
        new == NewStream(strms)
    IN  IF flag
        THEN [run |-> [active |-> TRUE, caller |-> caller, question |-> question,
                       flag |-> flag, prompt |-> prompt,
                       old_stdout |-> out, new_stdout |-> new, emitted |-> <<>>],
              sys_stdout |-> new,
              streams |-> strms @@ (new :> <<>>)]
        ELSE [run |-> [active |-> TRUE, caller |-> caller, question |-> question,
                       flag |-> flag, prompt |-> prompt,
                       old_stdout |-> 0, new_stdout |-> 0, emitted |-> <<>>],
              sys_stdout |-> out,
              streams |-> strms]

\* GAIAAgent.run reading the text of the stream it saved, not of its buffer
RunReturn_ReadsOld(frame, response, out, strms) ==
    IF frame.flag
    THEN [ret |-> PyTuple(<<response.response, strms[frame.old_stdout]>>),
          sys_stdout |-> frame.old_stdout]
    ELSE [ret |-> PyTuple(<<response.response, <<>> >>), sys_stdout |-> out]

\* GAIAAgent.run after achat returned: the finally clause, getvalue(), and
\* the pair it returns
RunReturn(frame, response, out, strms) ==
    IF frame.flag
    THEN [ret |-> PyTuple(<<response.response, strms[frame.new_stdout]>>),
          sys_stdout |-> frame.old_stdout]
    ELSE [ret |-> PyTuple(<<response.response, <<>> >>), sys_stdout |-> out]

\* GAIAAgent.run catching the exception of achat instead of passing it on
RunRaise_Swallows(frame, e, out) ==
    IF frame.flag
    THEN [raised |-> NoExc, sys_stdout |-> frame.old_stdout]
    ELSE [raised |-> NoExc, sys_stdout |-> out]

\* GAIAAgent.run restoring sys.stdout only on the normal path
RunRaise_NoFinally(frame, e, out) == [raised |-> e, sys_stdout |-> out]

\* GAIAAgent.run after achat raised: the finally clause, then the exception
\* goes on to the caller
RunRaise(frame, e, out) ==
    IF frame.flag
    THEN [raised |-> e, sys_stdout |-> frame.old_stdout]
    ELSE [raised |-> e, sys_stdout |-> out]

(***************************************************************************)
(* The data the environment supplies: the service's catalogue of           *)
(* questions, the replies of the HTTP calls, the configuration file.       *)
(***************************************************************************)
\* the file_names table of download_questions_and_files, in insertion order
file_names ==
    << <<"cca530fc-4052-43b2-b130-b30968d8aa44", "chess_position.jpg">>,
       <<"99c9cc74-fdc8-46c6-8f8d-3ce2d3bfeea3", "Strawberry pie.mp3">>,
       <<"f918266a-b3e0-4914-865d-4faa564f1aef", "python_code.py">>,
       <<"1f975693-876d-457b-a649-393859e79bf3", "Homework.mp3">>,
       <<"7bd855d8-463d-4ed5-93ca-5fe35145f733", "menu_items.xlsx">> >>

MappedIds == {file_names[i][1] : i \in 1..Len(file_names)}
FileNames == {file_names[i][2] : i \in 1..Len(file_names)}

Question(task_id, text) == [task_id |-> task_id, question |-> text]

\* tasks of the service that have no entry in file_names
ExtraPool ==
    << Question("task-1", "Capital of France?"),
       Question("task-2", "What is the capital of France?"),
       Question("task-3", "Capital of France?") >>

\* the questions the service holds, in its order
Catalogue ==
    << Question(file_names[1][1], "Review the chess position"),
       Question(file_names[2][1], "Listen to the recipe"),
       Question(file_names[3][1], "What does the script print?"),
       Question(file_names[4][1], "Listen to the homework"),
       Question(file_names[5][1], "What were the total sales?") >>
    \o SubSeq(ExtraPool, 1, ExtraTasks)

TaskIds == {Catalogue[i].task_id : i \in 1..Len(Catalogue)}

RECURSIVE Pick(_, _, _)
\* the elements of s at the positions in keep, from position i on, in order
Pick(s, keep, i) ==
    IF i > Len(s) THEN <<>>
    ELSE IF i \in keep THEN <<s[i]>> \o Pick(s, keep, i + 1)
    ELSE Pick(s, keep, i + 1)

Reverse(s) == [i \in 1..Len(s) |-> s[Len(s) + 1 - i]]

\* the question lists the service may answer the entry point with
ServedLists ==
    {Pick(Catalogue, keep, 1) : keep \in SUBSET (1..Len(Catalogue))}
    \cup {Reverse(Pick(Catalogue, keep, 1)) : keep \in SUBSET (1..Len(Catalogue))}

\* the question lists the drivers of single functions use
DriverQuestions == {ExtraPool[1], ExtraPool[2]}
SeqsUpTo(S, n) == UNION {[1..k -> S] : k \in 0..n}
DriverLists == SeqsUpTo(DriverQuestions, MaxQuestions)

ErrTexts == {"Network error", "Invalid JSON"}
TransportErrors == {Exc(c, m) : c \in {"ConnectionError", "Timeout"}, m \in ErrTexts}
\* an exception of requests.get / requests.post that is no RequestException
OtherErrors == {Exc("ValueError", m) : m \in ErrTexts}
StatusCodes == {200, 404, 500}

\* byte strings the service stores as attachments
Contents == {<<1>>, <<2, 3>>}
\* what a file of files/ may hold before the run
OldContent == <<9, 9, 9>>

JsonReplies(values) ==
    {Raised(e) : e \in TransportErrors \cup OtherErrors}
    \cup {Response(st, v) : st \in StatusCodes, v \in values}
    \cup {Response(st, NotJson(m)) : st \in StatusCodes, m \in ErrTexts}

FileReplies ==
    {Raised(e) : e \in TransportErrors \cup OtherErrors}
    \cup {Response(200, PyBytes(c)) : c \in Contents}
    \cup {Response(st, PyBytes(<<>>)) : st \in StatusCodes \ {200}}

\* the configuration documents config.yaml may hold: the fixtures of
\* tests/test_agent.py with the keys main.py reads, and one without a provider
Configs ==
    << [provider |-> "gemini", model_name |-> "gemini-pro", temperature |-> "0.5",
        username |-> "user", agent_code |-> "http://code.url"],
       [provider |-> "openai", model_name |-> "gpt-4", temperature |-> "0.7",
        username |-> "user", agent_code |-> "http://code.url"],
       [provider |-> "unknown_provider", model_name |-> "some-model",
        temperature |-> "0.5", username |-> "user", agent_code |-> "http://code.url"],
       [model_name |-> "some-model", temperature |-> "0.5",
        username |-> "user", agent_code |-> "http://code.url"] >>

\* what the external agent loop prints, a ReAct cycle cut anywhere, and what it
\* may answer and raise
ReActCycle ==
    << "Thought: I need to answer the question.", "Action: Search",
       "Observation: Found Paris." >>
LoopLine(k) == ReActCycle[((k - 1) % Len(ReActCycle)) + 1]
Responses == {"Paris", "Paris."}
AgentErrors == {Exc("ValueError", "Reached max iterations.")}
\* a line the caller prints around a call
Sentinel == "sentinel"

\* the {score, message} bodies of the submit endpoint
ScoreBodies ==
    {PyDict([score |-> sc, message |-> "Success"]) : sc \in {0, 10}}

(***************************************************************************)
(* State.                                                                  *)
(***************************************************************************)
VARIABLES
    call,       \* the driver's last call of a function: its arguments, the
                \* reply of the environment and the function's Outcome
    ncalls,     \* how many calls of the agent the driver has made
    agent,      \* the GAIAAgent object, None before it is constructed
    llms,       \* the LLM clients constructed so far
    reacts,     \* the ReActAgent objects constructed so far
    sys_stdout, \* the stream object sys.stdout is bound to
    streams,    \* the text of each live stream object; 1 is the process's stdout
    run,        \* the call of GAIAAgent.run in flight
    aq,         \* the call of answer_questions in flight
    achats,     \* the prompts achat was awaited with during the driver's call
    pc,         \* where the entry point of main.py is
    idx,        \* the position of the entry point's current for loop
    questions,  \* main.py: questions
    files,      \* download_questions_and_files: the dict files
    disk,       \* the content of each file of the directory files/, None if absent
    config,     \* main.py: config
    answers,    \* main.py: answers
    status,     \* main.py: status
    uncaught,   \* the exception that ended the entry point, NoExc if none
    http        \* the calls of requests.get and requests.post of the entry point

apiVars == <<call>>
agentVars == <<ncalls, agent, llms, reacts, sys_stdout, streams, run, aq, achats>>
mainVars == <<pc, idx, questions, files, disk, config, answers, status, uncaught, http>>
vars ==
    <<call, ncalls, agent, llms, reacts, sys_stdout, streams, run, aq, achats,
      pc, idx, questions, files, disk, config, answers, status, uncaught, http>>

NoCall == [fn |-> "none", args |-> <<>>, reply |-> Raised(NoExc), done |-> FALSE,
           out |-> Outcome(None, NoExc, <<>>, <<>>)]

NoAq == [active |-> FALSE, questions |-> <<>>, i |-> 0, answers |-> <<>>]

\* the state of a fresh process
InitState ==
    /\ call = NoCall
    /\ ncalls = 0
    /\ agent = None
    /\ llms = <<>>
    /\ reacts = <<>>
    /\ sys_stdout = 1
    /\ streams = (1 :> <<>>)
    /\ run = NoRun
    /\ aq = NoAq
    /\ achats = <<>>
    /\ idx = 0
    /\ questions = None
    /\ files = <<>>
    /\ config = <<>>
    /\ answers = None
    /\ status = None
    /\ uncaught = NoExc
    /\ http = <<>>

\* the directory files/ with none of the mapped files in it
EmptyDisk == [f \in FileNames |-> None]

(***************************************************************************)
(* Driver of gaia_agent/api.py: each function called directly, as the      *)
(* tests of tests/test_api.py do, with every reply of the environment.     *)
(***************************************************************************)
MainTimeout == 10

CallFetchQuestions ==
    \E timeout \in {DefaultTimeout, MainTimeout}, reply \in JsonReplies({PyList(l) : l \in DriverLists}) :
        /\ call' = [fn |-> "fetch_questions", args |-> <<PyInt(timeout)>>,
                    reply |-> reply, done |-> TRUE,
                    out |-> FetchQuestions(PyInt(timeout), reply)]
        /\ UNCHANGED <<agentVars, mainVars>>

\* answer lists as the tests pass them, and the coroutine the entry point passes
DriverAnswers ==
    {PyList([i \in 1..Len(l) |-> [task_id |-> l[i].task_id, submitted_answer |-> "A1"]]) :
        l \in DriverLists}
    \cup {PyCoroutine("answer_questions", <<>>)}

CallSubmitAnswers ==
    \E ans \in DriverAnswers, reply \in JsonReplies(ScoreBodies) :
        /\ call' = [fn |-> "submit_answers",
                    args |-> <<"user", "http://code.url", ans>>,
                    reply |-> reply, done |-> TRUE,
                    out |-> SubmitAnswers("user", "http://code.url", ans, reply)]
        /\ UNCHANGED <<agentVars, mainVars>>

CallGetFile ==
    \E task_id \in TaskIds, reply \in FileReplies :
        /\ call' = [fn |-> "get_file", args |-> <<task_id>>, reply |-> reply,
                    done |-> TRUE, out |-> GetFile(task_id, reply)]
        /\ UNCHANGED <<agentVars, mainVars>>

InitApi == InitState /\ pc = "driver" /\ disk = EmptyDisk
NextApi == CallFetchQuestions \/ CallSubmitAnswers \/ CallGetFile
SpecApi == InitApi /\ [][NextApi]_vars

(***************************************************************************)
(* main.py: the entry point, from a fresh process to its exit.  Each       *)
(* action runs the script up to its next call of the network or of the     *)
(* file system.                                                            *)
(***************************************************************************)
\* what iterating a value and subscripting the element with "task_id" raises
\* before the first get_file: NoExc for a list of question dicts
IterationError(value) ==
    IF value.tag = "None"
    THEN Exc("TypeError", "'NoneType' object is not iterable")
    ELSE IF value.tag = "tuple" /\ Len(value.val) > 0
    THEN Exc("TypeError", "string indices must be integers")
    ELSE NoExc

\* open(path, "ab"): the bytes are added after what the file held
WriteFile_Appends(before, bytes_sequence) ==
    IF bytes_sequence.tag = "bytes"
    THEN [content |-> IF before = None THEN bytes_sequence
                      ELSE PyBytes(before.val \o bytes_sequence.val),
          raised |-> NoExc]
    ELSE [content |-> IF before = None THEN PyBytes(<<>>) ELSE before,
          raised |-> Exc("TypeError", "a bytes-like object is required")]

\* with open(path, "wb") as f: f.write(bytes_sequence): the content of the
\* file afterwards and the exception raised; opening truncates the file,
\* whatever it held before
WriteFile(before, bytes_sequence) ==
    IF bytes_sequence.tag = "bytes"
    THEN [content |-> bytes_sequence, raised |-> NoExc]
    ELSE [content |-> PyBytes(<<>>),
          raised |-> Exc("TypeError", "a bytes-like object is required")]

\* calling the async function answer_questions without awaiting it: a
\* coroutine object, none of the function's body runs
AnswerQuestionsCall(agent_object, question_list) ==
    PyCoroutine("answer_questions", <<agent_object, question_list>>)

Crash(e) == pc' = "crashed" /\ uncaught' = e

PrintLines(lines) == streams' = [streams EXCEPT ![sys_stdout] = @ \o lines]

\* questions = fetch_questions(timeout=10)
MainFetch ==
    \E reply \in JsonReplies({PyList(l) : l \in ServedLists}) :
        LET out == FetchQuestions(PyInt(MainTimeout), reply) IN
        /\ pc = "start"
        /\ questions' = out.ret
        /\ http' = http \o out.http
        /\ PrintLines(out.printed)
        /\ pc' = "get_files"
        /\ idx' = 1
        /\ UNCHANGED <<call, ncalls, agent, llms, reacts, sys_stdout, run, aq, achats,
                       files, disk, config, answers, status, uncaught>>

\* for question in questions: files.update({task_id: get_file(task_id)})
MainGetFile ==
    /\ pc = "get_files"
    /\ IF IterationError(questions) # NoExc
       THEN /\ Crash(IterationError(questions))
            /\ UNCHANGED <<idx, files, http>>
       ELSE IF idx > Len(questions.val)
       THEN /\ pc' = "write_files"
            /\ idx' = 1
            /\ UNCHANGED <<files, http, uncaught>>
       ELSE \E reply \in FileReplies :
               LET task_id == questions.val[idx].task_id
                   out == GetFile(task_id, reply)
               IN  /\ http' = http \o out.http
                   /\ IF out.raised # NoExc
                      THEN Crash(out.raised) /\ UNCHANGED <<idx, files>>
                      ELSE /\ files' = (task_id :> out.ret) @@ files
                           /\ idx' = idx + 1
                           /\ UNCHANGED <<pc, uncaught>>
    /\ UNCHANGED <<call, ncalls, agent, llms, reacts, sys_stdout, streams, run, aq, achats,
                   questions, disk, config, answers, status>>

\* for task_id, file_name in file_names.items(): write files[task_id]
MainWriteFile ==
    /\ pc = "write_files"
    /\ IF idx > Len(file_names)
       THEN /\ pc' = "load_config"
            /\ UNCHANGED <<idx, disk, uncaught>>
       ELSE LET task_id == file_names[idx][1]
                file_name == file_names[idx][2]
            IN  IF task_id \notin DOMAIN files
                THEN Crash(Exc("KeyError", task_id)) /\ UNCHANGED <<idx, disk>>
                ELSE LET w == WriteFile(disk[file_name], files[task_id]) IN
                     /\ disk' = [disk EXCEPT ![file_name] = w.content]
                     /\ IF w.raised # NoExc
                        THEN Crash(w.raised) /\ UNCHANGED idx
                        ELSE idx' = idx + 1 /\ UNCHANGED <<pc, uncaught>>
    /\ UNCHANGED <<call, ncalls, agent, llms, reacts, sys_stdout, streams, run, aq, achats,
                   questions, files, config, answers, status, http>>

\* config = yaml.safe_load(f)
MainLoadConfig ==
    \E c \in 1..Len(Configs) :
        /\ pc = "load_config"
        /\ config' = Configs[c]
        /\ pc' = "construct"
        /\ UNCHANGED <<call, ncalls, agent, llms, reacts, sys_stdout, streams, run, aq,
                       achats, idx, questions, files, disk, answers, status, uncaught, http>>

\* agent = GAIAAgent(config)
MainConstruct ==
    LET r == GAIAAgentInit(config) IN
    /\ pc = "construct"
    /\ llms' = llms \o r.llms
    /\ reacts' = reacts \o r.reacts
    /\ IF r.raised # NoExc
       THEN Crash(r.raised) /\ UNCHANGED agent
       ELSE /\ agent' = GAIAAgentObject(r.reacts[1])
            /\ pc' = "answer"
            /\ UNCHANGED uncaught
    /\ UNCHANGED <<call, ncalls, sys_stdout, streams, run, aq, achats, idx, questions,
                   files, disk, config, answers, status, http>>

\* answers = answer_questions(agent, questions)
MainAnswerQuestions ==
    /\ pc = "answer"
    /\ answers' = AnswerQuestionsCall(agent, questions)
    /\ pc' = "submit"
    /\ UNCHANGED <<call, ncalls, agent, llms, reacts, sys_stdout, streams, run, aq, achats,
                   idx, questions, files, disk, config, status, uncaught, http>>

\* status = submit_answers(username=..., agent_code=..., answers=answers)
MainSubmit ==
    \E reply \in JsonReplies(ScoreBodies) :
        LET out == SubmitAnswers(config.username, config.agent_code, answers, reply) IN
        /\ pc = "submit"
        /\ status' = out.ret
        /\ http' = http \o out.http
        /\ PrintLines(out.printed)
        /\ pc' = "print"
        /\ UNCHANGED <<call, ncalls, agent, llms, reacts, sys_stdout, run, aq, achats,
                       idx, questions, files, disk, config, answers, uncaught>>

\* print(status); print("Done!")
MainPrint ==
    /\ pc = "print"
    /\ PrintLines(<< <<status>>, <<"Done!">> >>)
    /\ pc' = "done"
    /\ UNCHANGED <<call, ncalls, agent, llms, reacts, sys_stdout, run, aq, achats,
                   idx, questions, files, disk, config, answers, status, uncaught, http>>

\* a fresh process; the directory files/ is empty or holds earlier downloads
Init ==
    /\ InitState
    /\ pc = "start"
    /\ disk \in {EmptyDisk, [f \in FileNames |-> PyBytes(OldContent)]}

Next ==
    \/ MainFetch
    \/ MainGetFile
    \/ MainWriteFile
    \/ MainLoadConfig
    \/ MainConstruct
    \/ MainAnswerQuestions
    \/ MainSubmit
    \/ MainPrint

Spec == Init /\ [][Next]_vars

(***************************************************************************)
(* Claims about the entry point, checked under Spec.                       *)
(***************************************************************************)
IsPost(c) == c.method = "POST"

\* the answers values the entry point has passed to submit_answers
SubmittedAnswers ==
    [i \in 1..Len(SelectSeq(http, IsPost)) |-> SelectSeq(http, IsPost)[i].json.val.answers]

\* C1: in a run of the entry point with a non-empty fetched question list in
\* which no step raises, the value passed as answers to the single
\* submit_answers call is a sequence with one record per fetched question, in
\* fetch order, with the task_id values of the fetched questions.
C1_SubmittedAnswersMatch ==
    (pc \in {"print", "done"} /\ uncaught = NoExc
     /\ questions.tag = "list" /\ Len(questions.val) > 0)
    => /\ Len(SubmittedAnswers) = 1
       /\ SubmittedAnswers[1].tag = "list"
       /\ Len(SubmittedAnswers[1].val) = Len(questions.val)
       /\ \A i \in 1..Len(questions.val) :
             SubmittedAnswers[1].val[i].task_id = questions.val[i].task_id

(***************************************************************************)
(* Claims about gaia_agent/api.py, checked under SpecApi.                  *)
(***************************************************************************)
\* the kind of outcome a reply of the questions endpoint stands for
ReplyKind(reply) ==
    IF reply.kind = "raise"
    THEN IF IsInstance(reply.exc.cls, "RequestException") THEN "transport" ELSE "unexpected"
    ELSE IF RaiseForStatus(reply) # NoExc THEN "transport"
    ELSE IF reply.payload.tag = "notjson" THEN "protocol"
    ELSE IF Len(reply.payload.val) = 0 THEN "empty"
    ELSE "success"

QuestionReplies == JsonReplies({PyList(l) : l \in DriverLists})

\* C2: fetch_questions returns None whenever the GET raises a
\* RequestException (transport or HTTP error) and whenever decoding the body
\* raises JSONDecodeError; it then made exactly one GET to the questions URL
\* and did not raise.
C2_FetchErrorsReturnNone ==
    (call.fn = "fetch_questions"
     /\ ReplyKind(call.reply) \in {"transport", "protocol"})
    => /\ PyEq(call.out.ret, None)
       /\ call.out.raised = NoExc
       /\ call.out.http = <<HttpCall("GET", QUESTIONS_URL, call.args[1], None)>>

\* the results of fetch_questions for the replies of two kinds always differ
Distinguishable(k1, k2) ==
    call.fn = "fetch_questions" /\ ReplyKind(call.reply) = k1
    => \A r2 \in QuestionReplies :
          ReplyKind(r2) = k2
          => ~PyEq(call.out.ret, FetchQuestions(call.args[1], r2).ret)

C4_DecodedReturned ==
    (call.fn = "fetch_questions" /\ ReplyKind(call.reply) \in {"empty", "success"})
    => IF Len(call.reply.payload.val) > 0
       THEN PyEq(call.out.ret, call.reply.payload)
       ELSE PyEq(call.out.ret, None)

\* a decoded list of two different questions was returned
C4_Witness ==
    /\ call.fn = "fetch_questions"
    /\ ReplyKind(call.reply) = "success"
    /\ Len(call.out.ret.val) = 2
    /\ call.out.ret.val[1] # call.out.ret.val[2]

SubmitSucceeds(c) ==
    /\ JsonSerializable(c.args[3])
    /\ c.reply.kind = "response"
    /\ c.reply.status >= 200 /\ c.reply.status < 300
    /\ c.reply.payload.tag # "notjson"

Idle == ~run.active /\ ~aq.active

\* GAIAAgent(config)
Construct ==
    \E c \in 1..Len(Configs) :
        LET r == GAIAAgentInit(Configs[c]) IN
        /\ Idle
        /\ agent = None
        /\ llms' = llms \o r.llms
        /\ reacts' = reacts \o r.reacts
        /\ agent' = IF r.raised = NoExc THEN GAIAAgentObject(r.reacts[1]) ELSE agent
        /\ call' = [fn |-> "GAIAAgent", args |-> <<Configs[c]>>, reply |-> Raised(NoExc),
                    done |-> TRUE, out |-> Outcome(None, r.raised, <<>>, <<>>)]
        /\ UNCHANGED <<ncalls, sys_stdout, streams, run, aq, achats, mainVars>>

\* await agent.run(question, return_reasoning_process=flag), up to its await
CallRun ==
    \E q \in {d.question : d \in DriverQuestions}, flag \in BOOLEAN :
        LET r == RunEnter(q, flag, "driver", sys_stdout, streams) IN
        /\ Idle
        /\ agent # None
        /\ ncalls < MaxCalls
        /\ ncalls' = ncalls + 1
        /\ run' = r.run
        /\ sys_stdout' = r.sys_stdout
        /\ streams' = r.streams
        /\ achats' = <<r.run.prompt>>
        /\ call' = [fn |-> "run", args |-> <<q, flag>>, reply |-> Raised(NoExc),
                    done |-> FALSE, out |-> Outcome(None, NoExc, <<>>, <<>>)]
        /\ UNCHANGED <<agent, llms, reacts, aq, mainVars>>

\* the external agent loop (verbose=True) prints a line to sys.stdout
LoopPrint ==
    LET line == LoopLine(Len(run.emitted) + 1) IN
        /\ run.active
        /\ Len(streams[sys_stdout]) < MaxLines
        /\ streams' = [streams EXCEPT ![sys_stdout] = Append(@, line)]
        /\ run' = [run EXCEPT !.emitted = Append(@, line)]
        /\ UNCHANGED <<call, ncalls, agent, llms, reacts, sys_stdout, aq, achats, mainVars>>

\* the caller prints a line to sys.stdout while no call is in flight
DriverPrint ==
    /\ Idle
    /\ Len(streams[sys_stdout]) < MaxLines
    /\ streams' = [streams EXCEPT ![sys_stdout] = Append(@, Sentinel)]
    /\ UNCHANGED <<call, ncalls, agent, llms, reacts, sys_stdout, run, aq, achats, mainVars>>

\* answer_questions unpacking the pair of run the wrong way round
AnswerRecord_SwapsPair(question_dict, pair) ==
    [task_id |-> question_dict.task_id,
     submitted_answer |-> pair.val[2],
     reasoning_trace |-> pair.val[1]]

\* the record answer_questions appends for a question and the pair run returned
AnswerRecord(question_dict, pair) ==
    [task_id |-> question_dict.task_id,
     submitted_answer |-> pair.val[1],
     reasoning_trace |-> pair.val[2]]

\* await answer_questions(agent, questions): up to the await of the first run;
\* call.reply collects what each invocation of the external agent did
CallAnswerQuestions ==
    \E qs \in DriverLists :
        /\ Idle
        /\ agent # None
        /\ ncalls < MaxCalls
        /\ ncalls' = ncalls + 1
        /\ IF Len(qs) = 0
           THEN /\ call' = [fn |-> "answer_questions", args |-> <<qs>>,
                            reply |-> <<>>, done |-> TRUE,
                            out |-> Outcome(PyList(<<>>), NoExc, <<>>, <<>>)]
                /\ achats' = <<>>
                /\ UNCHANGED <<sys_stdout, streams, run, aq>>
           ELSE LET r == RunEnter(qs[1].question, TRUE, "aq", sys_stdout, streams) IN
                /\ call' = [fn |-> "answer_questions", args |-> <<qs>>,
                            reply |-> <<>>, done |-> FALSE,
                            out |-> Outcome(None, NoExc, <<>>, <<>>)]
                /\ aq' = [active |-> TRUE, questions |-> qs, i |-> 1, answers |-> <<>>]
                /\ run' = r.run
                /\ sys_stdout' = r.sys_stdout
                /\ streams' = r.streams
                /\ achats' = <<r.run.prompt>>
        /\ UNCHANGED <<agent, llms, reacts, mainVars>>

\* achat returns to a run the driver awaits: run returns its pair
AchatReturnToDriver ==
    \E resp \in Responses :
        LET r == RunReturn(run, [response |-> resp], sys_stdout, streams) IN
        /\ run.active
        /\ run.caller = "driver"
        /\ sys_stdout' = r.sys_stdout
        /\ streams' = Collect(streams, r.sys_stdout)
        /\ run' = NoRun
        /\ call' = [call EXCEPT !.done = TRUE,
                                !.reply = [emitted |-> run.emitted, response |-> resp],
                                !.out = Outcome(r.ret, NoExc, <<>>, <<>>)]
        /\ UNCHANGED <<ncalls, agent, llms, reacts, aq, achats, mainVars>>

\* achat returns to a run answer_questions awaits: the record is appended and
\* the loop goes on to the next question or returns the list
AchatReturnToLoop ==
    \E resp \in Responses :
        LET r == RunReturn(run, [response |-> resp], sys_stdout, streams)
            appended == Append(aq.answers, AnswerRecord(aq.questions[aq.i], r.ret))
            live == Collect(streams, r.sys_stdout)
            replies == Append(call.reply, [emitted |-> run.emitted, response |-> resp])
        IN
        /\ run.active
        /\ run.caller = "aq"
        /\ IF aq.i < Len(aq.questions)
           THEN LET n == RunEnter(aq.questions[aq.i + 1].question, TRUE, "aq",
                                  r.sys_stdout, live) IN
                /\ aq' = [aq EXCEPT !.i = @ + 1, !.answers = appended]
                /\ run' = n.run
                /\ sys_stdout' = n.sys_stdout
                /\ streams' = n.streams
                /\ achats' = Append(achats, n.run.prompt)
                /\ call' = [call EXCEPT !.reply = replies]
           ELSE /\ aq' = NoAq
                /\ run' = NoRun
                /\ sys_stdout' = r.sys_stdout
                /\ streams' = live
                /\ achats' = achats
                /\ call' = [call EXCEPT !.done = TRUE,
                                        !.reply = replies,
                                        !.out = Outcome(PyList(appended), NoExc, <<>>, <<>>)]
        /\ UNCHANGED <<ncalls, agent, llms, reacts, mainVars>>

\* achat raises: run lets the exception through, and so does answer_questions
AchatRaise ==
    \E e \in AgentErrors :
        LET r == RunRaise(run, e, sys_stdout)
            here == [emitted |-> run.emitted, response |-> "raised"]
        IN
        /\ run.active
        /\ sys_stdout' = r.sys_stdout
        /\ streams' = Collect(streams, r.sys_stdout)
        /\ run' = NoRun
        /\ aq' = NoAq
        /\ call' = [call EXCEPT !.done = TRUE,
                                !.reply = IF run.caller = "aq" THEN Append(@, here)
                                          ELSE here,
                                !.out = Outcome(None, r.raised, <<>>, <<>>)]
        /\ UNCHANGED <<ncalls, agent, llms, reacts, achats, mainVars>>

InitAgent == InitState /\ pc = "driver" /\ disk = EmptyDisk
NextAgent ==
    \/ Construct
    \/ CallRun
    \/ CallAnswerQuestions
    \/ LoopPrint
    \/ DriverPrint
    \/ AchatReturnToDriver
    \/ AchatReturnToLoop
    \/ AchatRaise
SpecAgent == InitAgent /\ [][NextAgent]_vars

(***************************************************************************)
(* Claims about gaia_agent/agent.py, checked under SpecAgent.              *)
(***************************************************************************)
\* a call of run by the driver that has returned its pair
RunReturned(flag) ==
    /\ call.fn = "run"
    /\ call.done
    /\ call.args[2] = flag
    /\ call.out.raised = NoExc

\* a step taken while a call of run with the given flag is in flight,
\* the step that enters it and the step that leaves it included
RunStep(flag) ==
    \/ run.active /\ run.flag = flag
    \/ run'.active /\ run'.flag = flag

\* C7: run with return_reasoning_process=False returns the empty string as
\* reasoning text whatever the external loop printed during the invocation,
\* and it leaves sys.stdout untouched.
C7_NoCaptureReturnsEmpty ==
    /\ [](RunReturned(FALSE) => call.out.ret.val[2] = <<>>)
    /\ [][RunStep(FALSE) => sys_stdout' = sys_stdout]_vars

\* a run without capture returned while the loop had printed two lines
C7_Witness ==
    /\ RunReturned(FALSE)
    /\ Len(call.reply.emitted) = 2
    /\ call.out.ret.val[2] = <<>>
    /\ sys_stdout = 1

\* C8: run with return_reasoning_process=True returns as reasoning text the
\* concatenation, in emission order, of what the external loop wrote to
\* standard output during that invocation; nothing written before or after
\* the call is part of it, and nothing written during the invocation reaches
\* the stream that was standard output before the call.
C8_CaptureIsExact ==
    /\ [](RunReturned(TRUE)
          => /\ call.out.ret.val[2] = call.reply.emitted
             /\ \A i \in 1..Len(call.out.ret.val[2]) : call.out.ret.val[2][i] # Sentinel)
    /\ [][(run.active /\ run.flag)
          => /\ run.old_stdout \in DOMAIN streams'
             /\ streams'[run.old_stdout] = streams[run.old_stdout]]_vars

\* a capturing run returned two lines while standard output holds the
\* caller's own lines
C8_Witness ==
    /\ RunReturned(TRUE)
    /\ Len(call.out.ret.val[2]) = 2
    /\ call.out.ret.val[2][1] # call.out.ret.val[2][2]
    /\ streams[1] = <<Sentinel, Sentinel>>

\* C9: after any sequence of calls of run, each run to completion before the
\* next starts and each returning or raising, sys.stdout is the stream that
\* was installed before the first call.
C9_StdoutRestored == Idle => sys_stdout = 1

\* a second call, with capture, ended by the agent invocation raising
C9_Witness ==
    /\ Idle
    /\ ncalls = 2
    /\ call.fn = "run"
    /\ call.args[2] = TRUE
    /\ call.out.raised # NoExc
    /\ sys_stdout = 1

\* C10: constructing GAIAAgent with a provider other than gemini and openai
\* (a missing provider key included) raises an error whose message contains
\* the provider name, and constructs no LLM client and no ReActAgent; with
\* gemini or openai it succeeds and builds exactly one agent with the
\* five-tool list.
C10_ProviderChecked ==
    call.fn = "GAIAAgent"
    => LET provider == DictGet(call.args[1], "provider", "") IN
       IF provider \in {"gemini", "openai"}
       THEN /\ call.out.raised = NoExc
            /\ Len(llms) = 1
            /\ Len(reacts) = 1
            /\ reacts[1].tools = tool_list
            /\ Len(reacts[1].tools) = 5
            /\ agent = GAIAAgentObject(reacts[1])
       ELSE /\ call.out.raised.cls = "ValueError"
            /\ \E i \in 1..Len(call.out.raised.msg) : call.out.raised.msg[i] = provider
            /\ llms = <<>>
            /\ reacts = <<>>
            /\ agent = None

\* the constructor refused the provider unknown_provider
C10_Witness ==
    /\ call.fn = "GAIAAgent"
    /\ DictGet(call.args[1], "provider", "") = "unknown_provider"
    /\ call.out.raised.cls = "ValueError"

(***************************************************************************)
(* Claims about download_questions_and_files, checked under Spec.          *)
(***************************************************************************)
\* download_questions_and_files has returned its question list
Downloaded ==
    \/ pc \in {"load_config", "construct", "answer", "submit", "print", "done"}
    \/ pc = "crashed" /\ config # <<>>

\* get_file returned the bytes of the attachment of this task
Present(task_id) == task_id \in DOMAIN files /\ files[task_id].tag = "bytes"

\* C11: the write loop of download_questions_and_files skips every task_id
\* whose attachment is absent: for any fetched question list and any pattern
\* of present and absent attachments it does not raise, it writes the file
\* of every present mapped attachment and leaves the file of every absent
\* one as it was, and the question list is returned.
C11_AbsentSkipped ==
    questions.tag = "list"
    => /\ ~(pc = "crashed" /\ uncaught.cls \in {"KeyError", "TypeError"})
       /\ Downloaded
          => \A i \in 1..Len(file_names) :
                IF Present(file_names[i][1])
                THEN disk[file_names[i][2]] = files[file_names[i][1]]
                ELSE disk[file_names[i][2]] \in {None, PyBytes(OldContent)}

\* C12: once download_questions_and_files has returned, for every task_id
\* of file_names whose attachment was present the file files/<file_name>
\* holds exactly the bytes fetched for that task_id, whatever it held before.
C12_FilesHoldAttachments ==
    Downloaded
    => \A i \in 1..Len(file_names) :
          Present(file_names[i][1])
          => disk[file_names[i][2]] = files[file_names[i][1]]

\* the download returned with two files of different content written
C12_Witness ==
    /\ pc = "load_config"
    /\ Present(file_names[1][1])
    /\ disk[file_names[1][2]] = PyBytes(<<1>>)
    /\ disk[file_names[5][2]] = PyBytes(<<2, 3>>)

(***************************************************************************)
(* Claims about GAIAAgent.run and answer_questions, checked under          *)
(* SpecAgent.                                                              *)
(***************************************************************************)
\* the instruction template with the question in place of its field
PromptFor(question) ==
    <<general_instructions[1], question, general_instructions[3]>>

\* C13: each call of GAIAAgent.run awaits achat exactly once, with the
\* instruction template in which the question is substituted as prompt, and
\* its final answer is the .response of that invocation's result, with
\* return_reasoning_process true as with false.
C13_RunInvokesOnce ==
    /\ call.fn = "run"
       => /\ achats = <<PromptFor(call.args[1])>>
          /\ (call.done /\ call.out.raised = NoExc)
             => call.out.ret.val[1] = call.reply.response
    /\ aq.active
       => /\ Len(achats) = aq.i
          /\ achats[aq.i] = PromptFor(aq.questions[aq.i].question)

\* a capturing run returned the agent's answer after the loop printed
C13_Witness ==
    /\ RunReturned(TRUE)
    /\ Len(call.reply.emitted) = 2
    /\ call.out.ret.val[1] = "Paris."
    /\ achats = <<PromptFor("What is the capital of France?")>>

\* a call of answer_questions that has returned its list
AnswersReturned ==
    /\ call.fn = "answer_questions"
    /\ call.done
    /\ call.out.raised = NoExc

\* C14: answer_questions processes the questions one at a time in the order
\* of its argument: while it runs exactly one invocation is in flight, the
\* one for the question after the records appended so far, made with
\* reasoning capture enabled; and when no invocation raises, the returned
\* list has one record per question in input order, with that question's
\* task_id and that invocation's answer and captured text.
C14_SequentialRecords ==
    /\ aq.active
       => /\ run.active /\ run.caller = "aq" /\ run.flag
          /\ Len(aq.answers) = aq.i - 1
          /\ Len(call.reply) = aq.i - 1
          /\ Len(achats) = Len(aq.answers) + 1
          /\ run.question = aq.questions[Len(aq.answers) + 1].question
    /\ AnswersReturned
       => /\ call.out.ret.tag = "list"
          /\ Len(call.out.ret.val) = Len(call.args[1])
          /\ Len(achats) = Len(call.args[1])
          /\ \A k \in 1..Len(call.args[1]) :
                /\ achats[k] = PromptFor(call.args[1][k].question)
                /\ call.out.ret.val[k] =
                      [task_id |-> call.args[1][k].task_id,
                       submitted_answer |-> call.reply[k].response,
                       reasoning_trace |-> call.reply[k].emitted]

\* two questions answered in turn, with different answers and traces
C14_Witness ==
    /\ AnswersReturned
    /\ Len(call.out.ret.val) = 2
    /\ call.out.ret.val[1].task_id = "task-2"
    /\ call.out.ret.val[2].task_id = "task-1"
    /\ call.out.ret.val[1].submitted_answer = "Paris"
    /\ call.out.ret.val[2].submitted_answer = "Paris."
    /\ Len(call.out.ret.val[1].reasoning_trace) = 2
    /\ Len(call.out.ret.val[2].reasoning_trace) = 1

\* a call of answer_questions ended by the invocation for question
\* Len(call.reply) raising
InvocationRaised ==
    /\ call.fn = "answer_questions"
    /\ call.done
    /\ Len(call.reply) > 0
    /\ call.reply[Len(call.reply)].response = "raised"

\* C15: when the external agent's invocation raises for question k, run
\* passes the error on without a second invocation, answer_questions passes
\* it on in turn, no invocation is made for a later question and no answer
\* list, not even the records of the questions before k, is returned.
C15_FailureAborts ==
    /\ InvocationRaised
       => /\ call.out.raised \in AgentErrors
          /\ call.out.ret = None
          /\ Idle
          /\ Len(achats) = Len(call.reply)
          /\ Len(achats) <= Len(call.args[1])
          /\ \A k \in 1..Len(achats) :
                achats[k] = PromptFor(call.args[1][k].question)
    /\ (call.fn = "run" /\ call.done /\ call.reply.response = "raised")
       => /\ call.out.raised \in AgentErrors
          /\ call.out.ret = None
          /\ Len(achats) = 1

\* the first of two questions was answered, the invocation for the second raised
C15_Witness ==
    /\ InvocationRaised
    /\ Len(call.args[1]) = 2
    /\ Len(call.reply) = 2
    /\ call.reply[1].response = "Paris"
    /\ Len(call.reply[1].emitted) = 1
    /\ call.out.raised.cls = "ValueError"
    /\ call.out.ret = None

(***************************************************************************)
(* Claims about the whole run of the entry point, checked under Spec.      *)
(***************************************************************************)
\* fetch_questions did not return a list of questions
FetchFailed == pc # "start" /\ questions.tag # "list"

\* the last n lines printed to the process's standard output
LastPrinted(n) ==
    SubSeq(streams[1], Len(streams[1]) - n + 1, Len(streams[1]))

\* C16: when fetching the questions fails (transport error, malformed body
\* or empty list) or the submission fails, the entry point does not end
\* with an uncaught error: the failure becomes a null result that is
\* printed, followed by the line Done!.
C16_FailuresDegrade ==
    /\ FetchFailed => pc # "crashed" /\ uncaught = NoExc
    /\ (pc \in {"print", "done"} /\ status = None) => uncaught = NoExc
    /\ (pc = "done" /\ (FetchFailed \/ status = None))
       => LastPrinted(2) = << <<None>>, <<"Done!">> >>

\* the constructor of GAIAAgent refused the provider of the configuration
ConfigRejected ==
    /\ pc = "crashed"
    /\ config # <<>>
    /\ DictGet(config, "provider", "") \notin {"gemini", "openai"}

\* C18: in a run whose configuration names an unsupported provider, the
\* configuration error is raised before any question is fetched, any
\* attachment is downloaded or any file is written, and no agent invocation
\* and no submission happens in that run.
C18_ConfigErrorAtStartup ==
    ConfigRejected
    => /\ uncaught.cls = "ValueError"
       /\ http = <<>>
       /\ files = <<>>
       /\ disk \in {EmptyDisk, [f \in FileNames |-> PyBytes(OldContent)]}
       /\ achats = <<>>
       /\ answers = None

(***************************************************************************)
(* gaia_agent/tools.py: the functions the external agent calls as tools.   *)
(* Each is an operator of its arguments, of the directory files/ and of    *)
(* what its dependencies do (env).                                         *)
(***************************************************************************)
ScrapeTimeout == 10

\* what a tool did: its return value or the exception it let through, the
\* requests calls it made and the paths it opened or probed
ToolOutcome(ret, raised, gets, opened) ==
    [ret |-> ret, raised |-> raised, printed |-> <<>>, http |-> gets, opened |-> opened]

\* a whitespace character of a page's text
Ws == " "

RECURSIVE Strip(_)
\* str.strip() of a text given as its words and whitespace characters
Strip(text) ==
    IF text = <<>> THEN <<>>
    ELSE IF Head(text) = Ws THEN Strip(Tail(text))
    ELSE IF text[Len(text)] = Ws THEN Strip(SubSeq(text, 1, Len(text) - 1))
    ELSE text

RECURSIVE GetText(_)
\* soup.get_text(separator=" ", strip=True) once the script and style
\* elements are decomposed: the stripped non-empty strings, joined by " "
GetText(elements) ==
    IF elements = <<>> THEN <<>>
    ELSE LET here == IF Head(elements).kind \in {"script", "style"} THEN <<>>
                     ELSE Strip(Head(elements).text)
             rest == GetText(Tail(elements))
         IN  IF here = <<>> THEN rest
             ELSE IF rest = <<>> THEN here
             ELSE here \o <<Ws>> \o rest

RECURSIVE CollapseSpaces(_)
\* re.sub(r"\s{2,}", " ", raw_text)
CollapseSpaces(text) ==
    IF Len(text) < 2 THEN text
    ELSE IF text[1] = Ws /\ text[2] = Ws THEN CollapseSpaces(Tail(text))
    ELSE <<text[1]>> \o CollapseSpaces(Tail(text))

\* the except clauses of web_search_and_scrape for the exception e of the
\* try body; url is None while the local variable url is not yet bound
WebSearchExcept(e, search_results, url, gets) ==
    IF IsInstance(e.cls, "RequestException")
    THEN IF url = None
         THEN ToolOutcome(None,
                  Exc("UnboundLocalError",
                      "cannot access local variable 'url' where it is not associated with a value"),
                  gets, <<>>)
         ELSE ToolOutcome(PyStr(<<"Error:", " Failed to fetch URL ">> \o url.val
                                \o <<". Reason: ", e.msg>>),
                          NoExc, gets, <<>>)
    ELSE LET error_url_info ==
                 IF Len(search_results) > 0 /\ url # None
                 THEN <<" URL: ">> \o url.val ELSE <<>>
         IN  ToolOutcome(PyStr(<<"Error:", " An unexpected error occurred during scraping.">>
                               \o error_url_info \o <<" Reason: ", e.msg>>),
                         NoExc, gets, <<>>)

\* web_search_and_scrape(query, num_results); env.search is what
\* DDGS().text does, env.fetch what requests.get does, env.soup what
\* BeautifulSoup does with the page
WebSearchAndScrape(query, num_results, env) ==
    IF env.search.raised # NoExc
    THEN WebSearchExcept(env.search.raised, <<>>, None, <<>>)
    ELSE LET search_results == env.search.results IN
    IF Len(search_results) = 0
    THEN ToolOutcome(PyStr(<<"Error:", " Web search did not return any results.">>),
                     NoExc, <<>>, <<>>)
    ELSE LET top_result == search_results[1]
             url == IF "href" \in DOMAIN top_result THEN top_result.href ELSE None
             gets == <<HttpCall("GET", url.val, PyInt(ScrapeTimeout), None)>>
         IN
    IF ~Truthy(url)
    THEN ToolOutcome(PyStr(<<"Error:", " Search result did not contain a valid URL.">>),
                     NoExc, <<>>, <<>>)
    ELSE IF env.fetch.kind = "raise"
    THEN WebSearchExcept(env.fetch.exc, search_results, url, gets)
    ELSE IF RaiseForStatus(env.fetch) # NoExc
    THEN WebSearchExcept(RaiseForStatus(env.fetch), search_results, url, gets)
    ELSE IF env.soup # NoExc
    THEN WebSearchExcept(env.soup, search_results, url, gets)
    ELSE ToolOutcome(PyStr(<<"Scraped content from ">> \o url.val \o <<":">>
                           \o CollapseSpaces(GetText(env.fetch.payload.val))),
                     NoExc, gets, <<>>)

\* the text each byte string is the UTF-8 encoding of; other byte strings
\* make open(path, "r").read() raise UnicodeDecodeError
Utf8 == (<<1>> :> "print('hello world')")

\* the table, as to_markdown(index=False) renders it, each byte string is
\* the workbook of; other byte strings are no workbook for pandas
Workbooks == (<<2, 3>> :> "| col1 | col2 |")

\* the words spoken in the recording each byte string is the MP3 of
Recordings == (<<1>> :> "This is the transcribed text.")

FilePath(file_name) == <<"files/", file_name>>

\* os.path.exists(f"files/{file_name}")
Exists(dir, file_name) == file_name \in DOMAIN dir /\ dir[file_name] # None

FileNotFound(file_name) ==
    Exc("FileNotFoundError", "[Errno 2] No such file or directory")

\* read_excel_file reading the file its argument names
ReadExcelFile_UsesArgument(file_name, dir, env) ==
    LET path == FilePath(file_name)
        e == IF ~Exists(dir, file_name) THEN FileNotFound(file_name)
             ELSE IF dir[file_name].val \notin DOMAIN Workbooks
             THEN Exc("ValueError", "Excel file format cannot be determined")
             ELSE IF ~env.tabulate
             THEN Exc("ImportError", "Missing optional dependency 'tabulate'")
             ELSE NoExc
    IN  IF e # NoExc
        THEN ToolOutcome(PyStr(<<"Error:", " Failed to read the Excel file. Reason: ", e.msg>>),
                         NoExc, <<>>, <<path>>)
        ELSE ToolOutcome(PyStr(<<Workbooks[dir[file_name].val]>>), NoExc, <<>>, <<path>>)

\* read_excel_file(file_name): the argument is overwritten with
\* menu_items.xlsx before it is used; env.tabulate is whether the package
\* to_markdown needs is installed
ReadExcelFile(file_name, dir, env) ==
    LET fixed == "menu_items.xlsx"
        path == FilePath(fixed)
        e == IF ~Exists(dir, fixed) THEN FileNotFound(fixed)
             ELSE IF dir[fixed].val \notin DOMAIN Workbooks
             THEN Exc("ValueError", "Excel file format cannot be determined")
             ELSE IF ~env.tabulate
             THEN Exc("ImportError", "Missing optional dependency 'tabulate'")
             ELSE NoExc
    IN  IF e # NoExc
        THEN ToolOutcome(PyStr(<<"Error:", " Failed to read the Excel file. Reason: ", e.msg>>),
                         NoExc, <<>>, <<path>>)
        ELSE ToolOutcome(PyStr(<<Workbooks[dir[fixed].val]>>), NoExc, <<>>, <<path>>)

\* read_python_script(file_name): the argument is overwritten with
\* python_code.py before it is used
ReadPythonScript(file_name, dir) ==
    LET fixed == "python_code.py"
        path == FilePath(fixed)
        e == IF ~Exists(dir, fixed) THEN FileNotFound(fixed)
             ELSE IF dir[fixed].val \notin DOMAIN Utf8
             THEN Exc("UnicodeDecodeError", "'utf-8' codec can't decode byte")
             ELSE NoExc
    IN  IF e # NoExc
        THEN ToolOutcome(PyStr(<<"Error:", " Failed to read the Python script. Reason: ", e.msg>>),
                         NoExc, <<>>, <<path>>)
        ELSE ToolOutcome(PyStr(<<Utf8[dir[fixed].val]>>), NoExc, <<>>, <<path>>)

\* the exception texts of the model that mention ffmpeg or avlib
FfmpegTexts == {"[Errno 2] No such file or directory: 'ffmpeg'"}

\* parse_audio_file(file_name); env.ffmpeg is whether pydub finds its
\* decoder, env.speech what recognize_google does
ParseAudioFile(file_name, dir, env) ==
    LET path == FilePath(file_name) IN
    IF ~Exists(dir, file_name)
    THEN ToolOutcome(PyStr(<<"Error:", " File not found at ">> \o path), NoExc, <<>>, <<path>>)
    ELSE LET e == IF ~env.ffmpeg
                  THEN Exc("FileNotFoundError", "[Errno 2] No such file or directory: 'ffmpeg'")
                  ELSE IF dir[file_name].val \notin DOMAIN Recordings
                  THEN Exc("CouldntDecodeError", "Decoding failed.")
                  ELSE env.speech
         IN  IF e = NoExc
             THEN ToolOutcome(PyStr(<<Recordings[dir[file_name].val]>>), NoExc, <<>>, <<path>>)
             ELSE IF IsInstance(e.cls, "RequestError")
             THEN ToolOutcome(PyStr(<<"Error:", " Could not request results from Google Web Speech API; ",
                                      e.msg>>), NoExc, <<>>, <<path>>)
             ELSE IF e.msg \in FfmpegTexts
             THEN ToolOutcome(PyStr(<<"Error:", " Failed to process audio. Reason: ", e.msg,
                                      ". Ensure ffmpeg is installed and in your system's PATH.">>),
                              NoExc, <<>>, <<path>>)
             ELSE ToolOutcome(PyStr(<<"Error:", " Failed to parse the audio file. Reason: ", e.msg>>),
                              NoExc, <<>>, <<path>>)

(***************************************************************************)
(* Driver of gaia_agent/tools.py: one tool called directly, as each test   *)
(* of tests/test_tools.py does, with every behaviour of its dependencies;  *)
(* the tools keep no state from one call to the next.                      *)
(***************************************************************************)
\* the entries DDGS().text yields
SearchHits ==
    { [title |-> "No URL here"],
      [title |-> "Empty URL", href |-> PyStr(<<>>)],
      [title |-> "Test Page", href |-> PyStr(<<"http://example.com/success">>)] }

\* what the search step raises; the library's own errors and those of the
\* HTTP client underneath it
SearchErrors ==
    {Exc("DuckDuckGoSearchException", "Ratelimit"), Exc("ConnectionError", "Network error"),
     Exc("Timeout", "Connection timed out")}

Searches(num_results) ==
    {[raised |-> e, results |-> <<>>] : e \in SearchErrors}
    \cup {[raised |-> NoExc, results |-> l] : l \in SeqsUpTo(SearchHits, num_results)}

Html(elements) == [tag |-> "html", val |-> elements]

\* the pages of the web: the page of the tests and an empty one
Pages ==
    { <<>>,
      << [kind |-> "title", text |-> <<"Test", Ws, "Page">>],
         [kind |-> "style", text |-> <<"body{color:red}">>],
         [kind |-> "p", text |-> <<"This is the main content.">>],
         [kind |-> "script", text |-> <<"alert('hi');">>],
         [kind |-> "text", text |-> <<Ws, "Extra", Ws, "spaces", Ws, Ws, Ws, "here.", Ws>>] >> }

PageReplies ==
    {Raised(e) : e \in TransportErrors \cup OtherErrors}
    \cup {Response(st, Html(p)) : st \in StatusCodes, p \in Pages}

SoupErrors == {NoExc, Exc("Exception", "Parsing failed")}

SpeechErrors ==
    {NoExc, Exc("RequestError", "API unavailable"), Exc("UnknownValueError", "")}

\* file names the agent may pass to a tool
ToolFileNames == FileNames \cup {"nonexistent.mp3", "any_filename_here_ignored.xlsx"}

\* the directory files/ when a tool runs: empty, or as a download wrote it
ToolDisks ==
    {EmptyDisk}
    \cup {[f \in FileNames |-> IF f \in {"python_code.py", "Strawberry pie.mp3"}
                               THEN PyBytes(c1) ELSE PyBytes(c2)] :
            c1 \in Contents \cup {OldContent}, c2 \in Contents \cup {OldContent}}

CallWebSearchAndScrape ==
    \E num_results \in 1..MaxResults :
    \E search \in Searches(num_results), fetch \in PageReplies, soup \in SoupErrors :
        LET env == [search |-> search, fetch |-> fetch, soup |-> soup] IN
        /\ call = NoCall
        /\ call' = [fn |-> "web_search_and_scrape", args |-> <<"test query", num_results>>,
                    reply |-> env, done |-> TRUE,
                    out |-> WebSearchAndScrape("test query", num_results, env)]
        /\ UNCHANGED <<agentVars, mainVars>>

CallReadExcelFile ==
    \E file_name \in ToolFileNames, tabulate \in BOOLEAN :
        LET env == [tabulate |-> tabulate] IN
        /\ call = NoCall
        /\ call' = [fn |-> "read_excel_file", args |-> <<file_name>>, reply |-> env,
                    done |-> TRUE, out |-> ReadExcelFile(file_name, disk, env)]
        /\ UNCHANGED <<agentVars, mainVars>>

CallReadPythonScript ==
    \E file_name \in ToolFileNames :
        /\ call = NoCall
        /\ call' = [fn |-> "read_python_script", args |-> <<file_name>>, reply |-> <<>>,
                    done |-> TRUE, out |-> ReadPythonScript(file_name, disk)]
        /\ UNCHANGED <<agentVars, mainVars>>

CallParseAudioFile ==
    \E file_name \in ToolFileNames, ffmpeg \in BOOLEAN, speech \in SpeechErrors :
        LET env == [ffmpeg |-> ffmpeg, speech |-> speech] IN
        /\ call = NoCall
        /\ call' = [fn |-> "parse_audio_file", args |-> <<file_name>>, reply |-> env,
                    done |-> TRUE, out |-> ParseAudioFile(file_name, disk, env)]
        /\ UNCHANGED <<agentVars, mainVars>>

InitTools == InitState /\ pc = "driver" /\ disk \in ToolDisks
NextTools ==
    \/ CallWebSearchAndScrape
    \/ CallReadExcelFile
    \/ CallReadPythonScript
    \/ CallParseAudioFile
SpecTools == InitTools /\ [][NextTools]_vars

(***************************************************************************)
(* Claims about gaia_agent/tools.py, checked under SpecTools.              *)
(***************************************************************************)
BeginsWithError(v) == v.tag = "str" /\ Len(v.val) > 0 /\ v.val[1] = "Error:"

\* the search step returned, with no result or with a top result without URL
NoUrlFound ==
    /\ call.fn = "web_search_and_scrape"
    /\ call.reply.search.raised = NoExc
    /\ \/ call.reply.search.results = <<>>
       \/ "href" \notin DOMAIN call.reply.search.results[1]
       \/ call.reply.search.results[1].href = PyStr(<<>>)

\* a dependency of the tool raised at some step of the call
DependencyRaised ==
    \/ /\ call.fn = "web_search_and_scrape"
       /\ \/ call.reply.search.raised # NoExc
          \/ /\ ~NoUrlFound
             /\ \/ call.reply.fetch.kind = "raise"
                \/ call.reply.fetch.status >= 400
                \/ call.reply.soup # NoExc
    \/ call.fn = "read_excel_file" /\ ~Exists(disk, "menu_items.xlsx")
    \/ call.fn = "read_python_script" /\ ~Exists(disk, "python_code.py")
    \/ /\ call.fn = "parse_audio_file"
       /\ Exists(disk, call.args[1])
       /\ (~call.reply.ffmpeg \/ call.reply.speech # NoExc)

\* C17: web_search_and_scrape, read_excel_file, read_python_script and
\* parse_audio_file never raise for string arguments: whatever exception a
\* dependency raises at any step, and when the search returns no result or a
\* result without a URL, the tool returns a string beginning with Error:, and
\* when the top search result has no URL no HTTP fetch is made.
C17_ToolsNeverRaise ==
    call.fn \in {"web_search_and_scrape", "read_excel_file", "read_python_script",
                 "parse_audio_file"}
    => /\ call.out.raised = NoExc
       /\ call.out.ret.tag = "str"
       /\ (DependencyRaised \/ NoUrlFound) => BeginsWithError(call.out.ret)
       /\ NoUrlFound => call.out.http = <<>>

\* C19: read_excel_file and read_python_script ignore their file_name
\* argument: with the same content of files/ any other argument makes them
\* read the same fixed path, files/menu_items.xlsx and files/python_code.py,
\* and return the same result; and both fixed names are values of the
\* file_names table of download_questions_and_files.
C19_ArgumentIgnored ==
    /\ call.fn = "read_excel_file"
       => /\ call.out.opened = << <<"files/", "menu_items.xlsx">> >>
          /\ \A other \in ToolFileNames :
                ReadExcelFile(other, disk, call.reply) = call.out
    /\ call.fn = "read_python_script"
       => /\ call.out.opened = << <<"files/", "python_code.py">> >>
          /\ \A other \in ToolFileNames : ReadPythonScript(other, disk) = call.out
    /\ \E i \in 1..Len(file_names) : file_names[i][2] = "menu_items.xlsx"
    /\ \E i \in 1..Len(file_names) : file_names[i][2] = "python_code.py"

\* read_excel_file, called with the name of a file that is not there,
\* returned the table of files/menu_items.xlsx
C19_Witness ==
    /\ call.fn = "read_excel_file"
    /\ call.args[1] = "any_filename_here_ignored.xlsx"
    /\ ~Exists(disk, call.args[1])
    /\ call.out.ret = PyStr(<<"| col1 | col2 |">>)

====
